---- MODULE Spec2Model ----
(***************************************************************************)
(* Crash capture and crash catalog.                                        *)
(*                                                                         *)
(*  - src/src/main.rs: an application whose panic hook writes one report   *)
(*    crash_report_<id>.json into the working directory.                   *)
(*  - src/server/src/main.rs: a server that lists the reports of the       *)
(*    working directory (GET /crashes) and returns one report with a       *)
(*    summary of the paired minidump crash_dump_<id>.dmp (GET /crash/{id}).*)
(*                                                                         *)
(* Text is a sequence of one-character strings, so that prefix/suffix      *)
(* stripping, JSON string escaping and hexadecimal formatting are computed *)
(* character by character as the code computes them.                       *)
(***************************************************************************)
EXTENDS Integers, Sequences, FiniteSets, TLC

VARIABLES
    dir,    \* the working directory: file name -> file content
    resp,   \* the response of the last request the server handled
    pc,     \* the application process: "running" until it panics, then "exited"
    hook    \* what the panic hook did: its inputs, the event, its diagnostics

vars == <<dir, resp, pc, hook>>

---------------------------------------------------------------------------
(* Option<T> and Result<T, E> *)

None == <<>>
Some(x) == <<x>>
Err == [ok |-> FALSE]
Ok(x) == [ok |-> TRUE, v |-> x]

---------------------------------------------------------------------------
(* Bounds of the model *)

MaxThreads == 2     \* threads in a minidump's thread list
MaxMsgLen == 2      \* characters in a panic message
MaxFrames == 2      \* instruction pointers in a captured backtrace

---------------------------------------------------------------------------
(* Characters and names *)

QUOTE == "\""
BSLASH == "\\"
NEWLINE == "\n"
\* one unit of a file name that is not valid UTF-8 (a lone byte 0xFF)
BADUNIT == "<FF>"
\* U+FFFD REPLACEMENT CHARACTER
REPLACEMENT == "<U+FFFD>"

CRASH_REPORT_PREFIX == <<"c","r","a","s","h","_","r","e","p","o","r","t","_">>
MINIDUMP_PREFIX == <<"c","r","a","s","h","_","d","u","m","p","_">>
JSON_SUFFIX == <<".","j","s","o","n">>
DMP_SUFFIX == <<".","d","m","p">>

\* str::strip_prefix
StripPrefix(s, p) ==
    IF Len(s) >= Len(p) /\ SubSeq(s, 1, Len(p)) = p
    THEN Some(SubSeq(s, Len(p) + 1, Len(s)))
    ELSE None

\* str::strip_suffix
StripSuffix(s, x) ==
    IF Len(s) >= Len(x) /\ SubSeq(s, Len(s) - Len(x) + 1, Len(s)) = x
    THEN Some(SubSeq(s, 1, Len(s) - Len(x)))
    ELSE None

\* OsStr::to_string_lossy: every unit that is not valid UTF-8 becomes U+FFFD
ToStringLossy(name) ==
    [i \in DOMAIN name |-> IF name[i] = BADUNIT THEN REPLACEMENT ELSE name[i]]

\* format!("{}{}.json", CRASH_REPORT_PREFIX, id)
ReportPath(id) == CRASH_REPORT_PREFIX \o id \o JSON_SUFFIX

\* format!("{}{}.dmp", MINIDUMP_PREFIX, id)
MinidumpPath(id) == MINIDUMP_PREFIX \o id \o DMP_SUFFIX

---------------------------------------------------------------------------
(* JSON: values, and the text serde_json writes and reads.  A text is the  *)
(* same tree as the value with every string in its escaped source form;    *)
(* [t |-> "invalid"] is a text that is not JSON at all (such as a          *)
(* truncated document).                                                    *)

JNull == [t |-> "null"]
JStr(s) == [t |-> "str", s |-> s]
JNum(n) == [t |-> "num", n |-> n]
JArr(a) == [t |-> "arr", a |-> a]
JObj(o) == [t |-> "obj", o |-> o]
TInvalid == [t |-> "invalid"]

\* Escape leaving backslashes as they are.
RECURSIVE EscapeQuotesOnly(_)
EscapeQuotesOnly(s) ==
    IF s = <<>> THEN <<>>
    ELSE (CASE Head(s) = QUOTE -> <<BSLASH, QUOTE>>
            [] Head(s) = NEWLINE -> <<BSLASH, "n">>
            [] OTHER -> <<Head(s)>>) \o EscapeQuotesOnly(Tail(s))

\* serde_json's string escaping, on the characters of the model
RECURSIVE Escape(_)
Escape(s) ==
    IF s = <<>> THEN <<>>
    ELSE (CASE Head(s) = QUOTE -> <<BSLASH, QUOTE>>
            [] Head(s) = BSLASH -> <<BSLASH, BSLASH>>
            [] Head(s) = NEWLINE -> <<BSLASH, "n">>
            [] OTHER -> <<Head(s)>>) \o Escape(Tail(s))

\* serde_json's reading of the inside of a string token
RECURSIVE Unescape(_)
Unescape(raw) ==
    IF raw = <<>> THEN Ok(<<>>)
    ELSE IF Head(raw) = QUOTE \/ Head(raw) = NEWLINE THEN Err
    ELSE IF Head(raw) = BSLASH
    THEN IF Len(raw) < 2 \/ raw[2] \notin {QUOTE, BSLASH, "n"} THEN Err
         ELSE LET rest == Unescape(SubSeq(raw, 3, Len(raw)))
                  c == IF raw[2] = "n" THEN NEWLINE ELSE raw[2]
              IN  IF rest.ok THEN Ok(<<c>> \o rest.v) ELSE Err
    ELSE LET rest == Unescape(Tail(raw))
         IN  IF rest.ok THEN Ok(<<Head(raw)>> \o rest.v) ELSE Err

\* serde_json::to_string_pretty of a value
RECURSIVE ToText(_)
ToText(v) ==
    CASE v.t = "str" -> [t |-> "str", raw |-> Escape(v.s)]
      [] v.t = "arr" -> [t |-> "arr", a |-> [i \in DOMAIN v.a |-> ToText(v.a[i])]]
      [] v.t = "obj" -> [t |-> "obj", o |-> [k \in DOMAIN v.o |-> ToText(v.o[k])]]
      [] OTHER -> v

RECURSIVE TextOk(_)
TextOk(d) ==
    CASE d.t = "str" -> Unescape(d.raw).ok
      [] d.t = "arr" -> \A i \in DOMAIN d.a : TextOk(d.a[i])
      [] d.t = "obj" -> \A k \in DOMAIN d.o : TextOk(d.o[k])
      [] d.t = "invalid" -> FALSE
      [] OTHER -> TRUE

RECURSIVE FromText(_)
FromText(d) ==
    CASE d.t = "str" -> JStr(Unescape(d.raw).v)
      [] d.t = "arr" -> JArr([i \in DOMAIN d.a |-> FromText(d.a[i])])
      [] d.t = "obj" -> JObj([k \in DOMAIN d.o |-> FromText(d.o[k])])
      [] OTHER -> d

\* serde_json::from_str::<Value>
FromStr(d) == IF TextOk(d) THEN Ok(FromText(d)) ELSE Err

\* Value::get(key): None unless the value is an object that has the key
Get(json, key) ==
    IF json.t = "obj" /\ key \in DOMAIN json.o THEN Some(json.o[key]) ELSE None

\* .and_then(|v| v.as_str()).map(|s| s.to_string())
AndThenAsStr(opt) ==
    IF opt # None /\ opt[1].t = "str" THEN Some(opt[1].s) ELSE None

---------------------------------------------------------------------------
(* Files.  A file content is one of                                        *)
(*   [kind |-> "text", doc |-> <text>]   UTF-8 text                         *)
(*   [kind |-> "minidump", ...]          a minidump with its streams        *)
(*   [kind |-> "binary"]                 bytes that are neither             *)
(*   [kind |-> "unreadable"]             an entry that cannot be read       *)

TextFile(doc) == [kind |-> "text", doc |-> doc]
BinaryFile == [kind |-> "binary"]
UnreadableFile == [kind |-> "unreadable"]

\* fs::read_to_string
ReadToString(d, path) ==
    IF path \in DOMAIN d /\ d[path].kind = "text" THEN Ok(d[path].doc) ELSE Err

\* Minidump::read_path
MinidumpReadPath(d, path) ==
    IF path \in DOMAIN d /\ d[path].kind = "minidump" THEN Ok(d[path]) ELSE Err

\* Minidump::get_stream::<T>
GetStream(dump, stream) ==
    IF dump[stream].st = "ok" THEN Ok(dump[stream].v) ELSE Err

---------------------------------------------------------------------------
(* The server: src/server/src/main.rs *)

\* The identifier a directory entry's name yields, if any (the loop body of
\* collect_crash_ids).
EntryId(name) ==
    LET file_name == ToStringLossy(name)
        stripped == StripPrefix(file_name, CRASH_REPORT_PREFIX)
    IN  IF stripped = None THEN None ELSE StripSuffix(stripped[1], JSON_SUFFIX)

\* collect_crash_ids.  read_dir gives the entries in no particular order, so
\* the vector of ids is kept as a bag: id -> number of times it was pushed.
\* enumerable = FALSE is read_dir (or one of its entries) failing.
collect_crash_ids(d, enumerable) ==
    IF ~enumerable THEN Err
    ELSE LET matching == {n \in DOMAIN d : EntryId(n) # None}
             ids == {EntryId(n)[1] : n \in matching}
         IN  Ok([id \in ids |->
                    Cardinality({n \in matching : EntryId(n) = Some(id)})])

load_sentry_json(d, id) ==
    LET data == ReadToString(d, ReportPath(id))
    IN  IF ~data.ok THEN Err ELSE FromStr(data.v)

\* "N/A", the entry of a thread whose instruction pointer is not known
NotAvailable == <<"N","/","A">>

HexDigits == <<"0","1","2","3","4","5","6","7","8","9","a","b","c","d","e","f">>

\* format!("{:x}", n)
RECURSIVE LowerHex(_)
LowerHex(n) ==
    IF n < 16 THEN <<HexDigits[n + 1]>>
    ELSE LowerHex(n \div 16) \o <<HexDigits[(n % 16) + 1]>>

\* format!("0x{:x}", n)
FormatHex(n) == <<"0","x">> \o LowerHex(n)

\* MinidumpException::get_crash_reason(os, cpu), in its Debug form: a value
\* that depends on the exception code, the OS and the CPU.
CrashReason(exc, os, cpu) == <<"CrashReason", exc.code, os, cpu>>

\* "Unknown".to_string()
UnknownReason == <<"Unknown">>

\* MinidumpThread::context(sys, misc) and get_instruction_pointer: the
\* thread's saved instruction pointer, None when it has no usable context.
ThreadContext(t, sys, misc) == t.context

\* TopFrame with a thread that has no context read as a zeroed context.
TopFrameDefaultContext(t, sys_stream, misc_stream) ==
    IF sys_stream.ok
    THEN LET ctx_opt == ThreadContext(t, sys_stream.v,
                                      IF misc_stream.ok THEN Some(misc_stream.v) ELSE None)
         IN  IF ctx_opt # None THEN FormatHex(ctx_opt[1]) ELSE FormatHex(0)
    ELSE NotAvailable

\* The closure of summarize_minidump mapping a thread to its top frame.
TopFrame(t, sys_stream, misc_stream) ==
    IF sys_stream.ok
    THEN LET ctx_opt == ThreadContext(t, sys_stream.v,
                                      IF misc_stream.ok THEN Some(misc_stream.v) ELSE None)
         IN  IF ctx_opt # None THEN FormatHex(ctx_opt[1]) ELSE NotAvailable
    ELSE NotAvailable

\* serde_json::Map::insert
Insert(m, k, v) == [x \in (DOMAIN m) \cup {k} |-> IF x = k THEN v ELSE m[x]]

\* ExceptionEntry with the crash reason computed for a fixed CPU.
ExceptionEntryFixedCpu(exc, sys_stream) ==
    [reason |-> IF sys_stream.ok
                THEN CrashReason(exc, sys_stream.v.os, "X86_64")
                ELSE UnknownReason,
     thread_id |-> exc.thread_id]

\* The "exception" entry of the summary.
ExceptionEntry(exc, sys_stream) ==
    [reason |-> IF sys_stream.ok
                THEN CrashReason(exc, sys_stream.v.os, sys_stream.v.cpu)
                ELSE UnknownReason,
     thread_id |-> exc.thread_id]

\* One element of the "modules" list.
ModuleEntry(m) ==
    [name |-> m.code_file,
     version |-> IF m.version # None THEN m.version[1] ELSE "",
     base_address |-> FormatHex(m.base_address),
     size |-> m.size]

\* InsertMemoryRegions counting the regions of both lists.
InsertMemoryRegionsBoth(summary, dump) ==
    LET mem_info == GetStream(dump, "meminfo")
        mem_list == GetStream(dump, "memlist")
        n == (IF mem_info.ok THEN Len(mem_info.v) ELSE 0)
             + (IF mem_list.ok THEN Len(mem_list.v) ELSE 0)
    IN  IF mem_info.ok \/ mem_list.ok THEN Insert(summary, "memory_regions", n)
        ELSE summary

\* The "memory_regions" step: the memory info list, else the memory list.
InsertMemoryRegions(summary, dump) ==
    LET mem_info == GetStream(dump, "meminfo")
        mem_list == GetStream(dump, "memlist")
    IN  IF mem_info.ok THEN Insert(summary, "memory_regions", Len(mem_info.v))
        ELSE IF mem_list.ok THEN Insert(summary, "memory_regions", Len(mem_list.v))
        ELSE summary

\* The body of summarize_minidump once the minidump is open.
Summarize(dump) ==
    LET sys_stream == GetStream(dump, "sys")
        exc == GetStream(dump, "exc")
        threads == GetStream(dump, "threads")
        misc == GetStream(dump, "misc")
        mods == GetStream(dump, "modules")
        unloaded == GetStream(dump, "unloaded")
        s0 == <<>>
        s1 == IF sys_stream.ok
              THEN Insert(s0, "os", [family |-> sys_stream.v.os, cpu |-> sys_stream.v.cpu])
              ELSE s0
        s2 == IF exc.ok
              THEN Insert(s1, "exception", ExceptionEntry(exc.v, sys_stream))
              ELSE s1
        s3 == IF threads.ok
              THEN Insert(Insert(s2, "thread_count", Len(threads.v)),
                          "top_frames",
                          [i \in DOMAIN threads.v |->
                              TopFrame(threads.v[i], sys_stream, misc)])
              ELSE s2
        s4 == IF misc.ok
              THEN Insert(s3, "misc_info",
                          [process_create_time |-> misc.v.process_create_time,
                           process_id |-> misc.v.process_id,
                           processor_max_mhz |-> misc.v.processor_max_mhz,
                           processor_current_mhz |-> misc.v.processor_current_mhz])
              ELSE s3
        s5 == IF mods.ok
              THEN Insert(s4, "modules",
                          [count |-> Len(mods.v),
                           list |-> [i \in DOMAIN mods.v |-> ModuleEntry(mods.v[i])]])
              ELSE s4
        s6 == IF unloaded.ok
              THEN Insert(s5, "unloaded_module_count", Len(unloaded.v))
              ELSE s5
    IN  InsertMemoryRegions(s6, dump)

\* summarize_minidump propagating the error of a missing exception stream.
summarize_minidump_propagating(d, id) ==
    LET dump == MinidumpReadPath(d, MinidumpPath(id))
    IN  IF ~dump.ok THEN Err
        ELSE IF ~GetStream(dump.v, "exc").ok THEN Err
        ELSE Ok(Summarize(dump.v))

summarize_minidump(d, id) ==
    LET dump == MinidumpReadPath(d, MinidumpPath(id))
    IN  IF ~dump.ok THEN Err ELSE Ok(Summarize(dump.v))

\* The entry of GET /crashes for an id whose report loaded.
CrashSummary(id, json) ==
    [id |-> id,
     timestamp |-> AndThenAsStr(Get(json, "timestamp")),
     message |-> AndThenAsStr(Get(json, "message"))]

\* GET /crashes.  The body is the bag of the entries pushed.
get_crashes(d, enumerable) ==
    LET collected == collect_crash_ids(d, enumerable)
    IN  IF ~collected.ok
        THEN [status |-> 500, body |-> "error"]
        ELSE LET ids == collected.v
                 loaded == {id \in DOMAIN ids : load_sentry_json(d, id).ok}
                 entries == {CrashSummary(id, load_sentry_json(d, id).v) : id \in loaded}
             IN  [status |-> 200, body |-> [e \in entries |-> ids[e.id]]]

\* get_crash answering 404 when the minidump cannot be summarized.
get_crash_requiring_minidump(d, id) ==
    LET sentry == load_sentry_json(d, id)
        summarized == summarize_minidump(d, id)
    IN  IF ~sentry.ok \/ ~summarized.ok
        THEN [status |-> 404, body |-> "error"]
        ELSE [status |-> 200,
              body |-> [sentry_report |-> sentry.v,
                        minidump_summary |-> Some(summarized.v)]]

\* GET /crash/{id}
get_crash(d, id) ==
    LET sentry == load_sentry_json(d, id)
        summarized == summarize_minidump(d, id)
    IN  IF ~sentry.ok
        THEN [status |-> 404, body |-> "error"]
        ELSE [status |-> 200,
              body |-> [sentry_report |-> sentry.v,
                        minidump_summary |->
                            IF summarized.ok THEN Some(summarized.v) ELSE None]]

---------------------------------------------------------------------------
(* The application: src/src/main.rs *)

\* "Panic occurred without a string message."
FallbackMessage ==
    <<"P","a","n","i","c"," ","o","c","c","u","r","r","e","d"," ",
      "w","i","t","h","o","u","t"," ","a"," ","s","t","r","i","n","g"," ",
      "m","e","s","s","a","g","e",".">>

\* MessageStr recognising only &str payloads.
MessageStrOnlyStr(payload) ==
    IF payload.type = "&str" THEN payload.text ELSE FallbackMessage

\* The message of a panic payload: downcast to &str, then to String, else the
\* fallback.
MessageStr(payload) ==
    IF payload.type = "&str" THEN payload.text
    ELSE IF payload.type = "String" THEN payload.text
    ELSE FallbackMessage

\* The frame pushed for one symbol backtrace::resolve reports.
MyFrame(symbol) ==
    [filename |-> symbol.filename,
     lineno |-> symbol.lineno,
     colno |-> symbol.colno,
     function |-> symbol.name]

\* The capture loop: for each frame of the backtrace, in order, one MyFrame
\* per symbol resolved at its instruction pointer (none, one or several).
RECURSIVE CaptureFrames(_)
CaptureFrames(bt) ==
    IF bt = <<>> THEN <<>>
    ELSE [i \in DOMAIN Head(bt) |-> MyFrame(Head(bt)[i])] \o CaptureFrames(Tail(bt))

\* Reverse leaving the order as captured.
ReverseOmitted(s) == s

\* Vec::reverse
Reverse(s) == [i \in 1..Len(s) |-> s[Len(s) + 1 - i]]

\* The stacktrace of the event: the reversed frames, None when there are none.
Stacktrace(captured) ==
    LET frames == Reverse(captured)
    IN  IF frames # <<>> THEN Some([frames |-> frames]) ELSE None

\* The timestamp: seconds since the epoch as text, 0 seconds when the clock
\* is before the epoch.
TimestampStr(clock_ok) == IF clock_ok THEN <<"1",".","5">> ELSE <<"0">>

SentryEvent(event_id_str, timestamp_str, message_str, stacktrace) ==
    [event_id |-> event_id_str,
     timestamp |-> timestamp_str,
     message |-> Some(message_str),
     level |-> Some(<<"f","a","t","a","l">>),
     platform |-> Some(<<"r","u","s","t">>),
     stacktrace |-> stacktrace]

\* Serialize of Option<String> and Option<u32>
OptStrJson(o) == IF o = None THEN JNull ELSE JStr(o[1])
OptNumJson(o) == IF o = None THEN JNull ELSE JNum(o[1])

\* #[derive(Serialize)] of MyFrame
FrameJson(f) ==
    JObj([filename |-> OptStrJson(f.filename),
          lineno |-> OptNumJson(f.lineno),
          colno |-> OptNumJson(f.colno),
          function |-> OptStrJson(f.function)])

\* #[derive(Serialize)] of SentryEvent (and MyStacktrace)
EventJson(e) ==
    JObj([event_id |-> JStr(e.event_id),
          timestamp |-> JStr(e.timestamp),
          message |-> OptStrJson(e.message),
          level |-> OptStrJson(e.level),
          platform |-> OptStrJson(e.platform),
          stacktrace |->
              IF e.stacktrace = None THEN JNull
              ELSE JObj([frames |->
                      JArr([i \in DOMAIN e.stacktrace[1].frames |->
                               FrameJson(e.stacktrace[1].frames[i])])])])

\* format!("crash_report_{}.json", sentry_event.event_id)
CrashReportFileName(event_id) ==
    <<"c","r","a","s","h","_","r","e","p","o","r","t","_">> \o event_id
        \o <<".","j","s","o","n">>

\* Persist ignoring the result of write_all.
PersistIgnoringWrite(d, filename, json_payload, create_ok, write_ok) ==
    IF ~create_ok
    THEN [dir |-> d, stderr |-> <<"Failed to create crash report file">>,
          saved |-> FALSE]
    ELSE IF ~write_ok
    THEN [dir |-> Insert(d, filename, TextFile(TInvalid)), stderr |-> <<>>,
          saved |-> FALSE]
    ELSE [dir |-> Insert(d, filename, TextFile(json_payload)),
          stderr |-> <<>>, saved |-> TRUE]

\* File::create then write_all.  create truncates or creates the file; a
\* failed write_all leaves a proper prefix of the payload, which is not a
\* JSON document.
Persist(d, filename, json_payload, create_ok, write_ok) ==
    IF ~create_ok
    THEN [dir |-> d, stderr |-> <<"Failed to create crash report file">>,
          saved |-> FALSE]
    ELSE IF ~write_ok
    THEN [dir |-> Insert(d, filename, TextFile(TInvalid)),
          stderr |-> <<"Failed to write crash report to file">>,
          saved |-> FALSE]
    ELSE [dir |-> Insert(d, filename, TextFile(json_payload)),
          stderr |-> <<>>, saved |-> TRUE]

\* custom_panic_hook.  in: the payload, the uuid generated, whether the
\* clock is after the epoch, the backtrace, and whether serialization, file
\* creation and the write succeed.
custom_panic_hook(d, in) ==
    LET event_id_str == in.uuid
        timestamp_str == TimestampStr(in.clock_ok)
        clock_err == IF in.clock_ok THEN <<>> ELSE <<"SystemTime before UNIX EPOCH!">>
        message_str == MessageStr(in.payload)
        captured == CaptureFrames(in.bt)
        sentry_event == SentryEvent(event_id_str, timestamp_str, message_str,
                                    Stacktrace(captured))
        obs == [payload |-> in.payload, captured |-> captured,
                event |-> sentry_event, result |-> "returned"]
    IN  IF ~in.ser_ok
        THEN [dir |-> d,
              hook |-> obs @@ [stderr |-> clock_err \o
                                  <<"Failed to serialize Sentry event to JSON">>,
                               saved |-> FALSE]]
        ELSE LET json_payload == ToText(EventJson(sentry_event))
                 filename == CrashReportFileName(sentry_event.event_id)
                 p == Persist(d, filename, json_payload, in.create_ok, in.write_ok)
             IN  [dir |-> p.dir,
                  hook |-> obs @@ [stderr |-> clock_err \o p.stderr,
                                   saved |-> p.saved]]

---------------------------------------------------------------------------
(* Inputs *)

IdA == <<"a">>
IdB == <<"b">>
IdRepl == <<REPLACEMENT>>

\* The ids GET /crash/{id} is requested with.
RequestIds == {IdA, IdB, IdRepl}

\* A report as the application writes it, and other JSON documents.
ReportA ==
    ToText(EventJson(SentryEvent(IdA, <<"1",".","5">>, <<"n", QUOTE>>, None)))
NoStringFields == ToText(JObj([timestamp |-> JNum(7), level |-> JNull]))
NotAnObject == ToText(JArr(<<JStr(<<"n">>)>>))
\* An object whose message string ends in a dangling backslash.
BadEscape == [t |-> "obj", o |-> [message |-> [t |-> "str", raw |-> <<BSLASH>>]]]

\* The streams of a minidump: absent, corrupt, or decoding to a value.
Stream(values) ==
    {[st |-> "absent"], [st |-> "corrupt"]} \cup {[st |-> "ok", v |-> x] : x \in values}

SysInfos ==
    {[os |-> "Linux", cpu |-> "X86_64"], [os |-> "Linux", cpu |-> "Arm64"],
     [os |-> "Windows", cpu |-> "X86_64"]}
Exceptions == {[code |-> 11, thread_id |-> 7]}
Contexts == {None, Some(0), Some(43981)}
ThreadLists ==
    UNION {[1..n -> {[context |-> c] : c \in Contexts}] : n \in 0..MaxThreads}
MiscInfos ==
    {[process_create_time |-> Some(1700), process_id |-> Some(42),
      processor_max_mhz |-> None, processor_current_mhz |-> None]}
ModuleLists ==
    {<<[code_file |-> "app", version |-> Some("1.2"), base_address |-> 4096, size |-> 1280],
       [code_file |-> "libc", version |-> None, base_address |-> 0, size |-> 16]>>}
UnloadedLists == {<<"old">>}
MemInfoLists == {<<>>, <<"i1">>}
MemoryLists == {<<"m1", "m2">>}

OneOf(S) == {CHOOSE x \in S : TRUE}
Present(values) == {[st |-> "ok", v |-> x] : x \in values}

\* Minidumps: every combination of absent, corrupt and decoding streams, and
\* every value of the streams whose values the summary combines.
Minidumps ==
    [kind : {"minidump"}, sys : Stream(OneOf(SysInfos)), exc : Stream(Exceptions),
     threads : Stream({<<[context |-> Some(43981)], [context |-> None]>>}),
     misc : Stream(MiscInfos), modules : Stream(ModuleLists),
     unloaded : Stream(UnloadedLists), meminfo : Stream(OneOf(MemInfoLists)),
     memlist : Stream(MemoryLists)]
    \cup
    [kind : {"minidump"}, sys : Stream(SysInfos), exc : Stream(Exceptions),
     threads : Stream(ThreadLists),
     misc : Present(MiscInfos) \cup {[st |-> "absent"]},
     modules : Present(ModuleLists), unloaded : Present(UnloadedLists),
     meminfo : Stream(MemInfoLists), memlist : Stream(MemoryLists)]

MinidumpA ==
    [kind |-> "minidump", sys |-> [st |-> "ok", v |-> [os |-> "Linux", cpu |-> "X86_64"]],
     exc |-> [st |-> "absent"], threads |-> [st |-> "ok", v |-> <<[context |-> Some(0)]>>],
     misc |-> [st |-> "absent"], modules |-> [st |-> "corrupt"],
     unloaded |-> [st |-> "absent"], meminfo |-> [st |-> "absent"],
     memlist |-> [st |-> "absent"]]

\* File names of the directories the server is run on.
OtherSuffixName == CRASH_REPORT_PREFIX \o IdA \o <<".","t","x","t">>
OtherPrefixName == <<"r","e","p","o","r","t","_">> \o IdA \o JSON_SUFFIX
NotUtf8Name == CRASH_REPORT_PREFIX \o <<BADUNIT>> \o JSON_SUFFIX

Absent == [kind |-> "absent"]

\* The directory holding the files of f that are not Absent.
DirOf(f) == [n \in {m \in DOMAIN f : f[m] # Absent} |-> f[n]]

\* Directories of reports, minidumps and other files, in every combination
\* of valid, malformed, unreadable and missing.
CatalogDirs ==
    {DirOf((ReportPath(IdA) :> c1) @@ (ReportPath(IdB) :> c2)
           @@ (MinidumpPath(IdA) :> c3) @@ (OtherSuffixName :> c4)
           @@ (OtherPrefixName :> c5) @@ (NotUtf8Name :> c6)
           @@ (ReportPath(IdRepl) :> c7)) :
        c1 \in {Absent, TextFile(ReportA), TextFile(NoStringFields),
                TextFile(NotAnObject), TextFile(BadEscape), TextFile(TInvalid),
                BinaryFile, UnreadableFile},
        c2 \in {Absent, TextFile(ReportA), TextFile(NoStringFields), TextFile(TInvalid)},
        c3 \in {Absent, MinidumpA, BinaryFile, TextFile(ReportA)},
        c4 \in {Absent, TextFile(ReportA)},
        c5 \in {Absent, TextFile(ReportA)},
        c6 \in {Absent, TextFile(NoStringFields), TextFile(TInvalid)},
        c7 \in {Absent, TextFile(ReportA)}}

\* One report paired with each minidump.
MinidumpDirs ==
    {(ReportPath(IdA) :> TextFile(ReportA)) @@ (MinidumpPath(IdA) :> m) : m \in Minidumps}

\* The directories the application crashes in.
CrashDirs ==
    {<<>>,
     (ReportPath(IdA) :> TextFile(NoStringFields)),
     (ReportPath(IdB) :> TextFile(TInvalid)) @@ (MinidumpPath(IdA) :> MinidumpA)}

\* Panic payloads: a &str, a String, or a value of another type.
MsgChars == {"n", QUOTE, BSLASH}
Texts == UNION {[1..n -> MsgChars] : n \in 0..MaxMsgLen}
Payloads ==
    {[type |-> "&str", text |-> s] : s \in Texts}
    \cup {[type |-> "String", text |-> s] : s \in Texts}
    \cup {[type |-> "other"]}

\* Backtraces: per frame, the symbols backtrace::resolve reports at its
\* instruction pointer.
SymA == [name |-> Some(<<"A">>), filename |-> Some(<<"c", BSLASH, "n">>),
         lineno |-> Some(3), colno |-> Some(1)]
SymB == [name |-> Some(<<"B">>), filename |-> None, lineno |-> None, colno |-> None]
SymC == [name |-> None, filename |-> Some(<<"n">>), lineno |-> Some(9), colno |-> None]
Resolutions == {<<>>, <<SymA>>, <<SymB>>, <<SymB, SymC>>}
Backtraces == UNION {[1..n -> Resolutions] : n \in 0..MaxFrames}

Uuids == {IdA, IdB}

\* The inputs of one run of the hook: every payload with a few backtraces,
\* and every backtrace with a few payloads.
HookInputs ==
    {in \in [payload : Payloads, bt : Backtraces, uuid : Uuids, clock_ok : BOOLEAN,
             ser_ok : BOOLEAN, create_ok : BOOLEAN, write_ok : BOOLEAN] :
        \/ in.bt \in {<<>>, <<<<SymA>>>>}
        \/ in.payload \in {[type |-> "other"], [type |-> "String", text |-> <<"n">>]}}

---------------------------------------------------------------------------
(* The state machine *)

NoResp == [op |-> "none"]
NoHook == [result |-> "not run"]

\* The server handles GET /crashes.
GetCrashes ==
    /\ \E enumerable \in BOOLEAN :
          resp' = [op |-> "list", enumerable |-> enumerable] @@ get_crashes(dir, enumerable)
    /\ UNCHANGED <<dir, pc, hook>>

\* The server handles GET /crash/{id}.
GetCrash ==
    /\ \E id \in RequestIds :
          resp' = [op |-> "detail", id |-> id] @@ get_crash(dir, id)
    /\ UNCHANGED <<dir, pc, hook>>

\* The application panics: the hook runs, then the process exits.
Panic ==
    /\ pc = "running"
    /\ \E in \in HookInputs :
          LET r == custom_panic_hook(dir, in)
          IN  dir' = r.dir /\ hook' = r.hook
    /\ pc' = "exited"
    /\ resp' = NoResp

\* The server over any directory.
Init ==
    /\ dir \in CatalogDirs \cup MinidumpDirs
    /\ resp = NoResp
    /\ pc = "idle"
    /\ hook = NoHook

Next == GetCrashes \/ GetCrash

Spec == Init /\ [][Next]_vars

\* The application crashing in a directory the server serves.
InitCrash ==
    /\ dir \in CrashDirs
    /\ resp = NoResp
    /\ pc = "running"
    /\ hook = NoHook

NextCrash == Panic \/ GetCrashes \/ GetCrash

SpecCrash == InitCrash /\ [][NextCrash]_vars

---------------------------------------------------------------------------
(* Properties of GET /crash/{id} *)

\* The last request was GET /crash/{id} and the minidump of id was opened.
DetailOpened ==
    /\ resp.op = "detail"
    /\ resp.status = 200
    /\ MinidumpPath(resp.id) \in DOMAIN dir
    /\ dir[MinidumpPath(resp.id)].kind = "minidump"

DetailDump == dir[MinidumpPath(resp.id)]

DetailSummarized == DetailOpened /\ resp.body.minidump_summary # None

DetailSummary == resp.body.minidump_summary[1]

Decodes(stream) == DetailDump[stream].st = "ok"

\* The report of id is a file of the directory that is text and parses.
ReportParses(d, id) ==
    /\ ReportPath(id) \in DOMAIN d
    /\ d[ReportPath(id)].kind = "text"
    /\ TextOk(d[ReportPath(id)].doc)

\* C1: GET /crash/{id} answers 404 exactly when the report of id cannot be
\* read or parsed; otherwise it answers 200 with the parsed report, and a
\* minidump that is missing or cannot be opened only leaves minidump_summary
\* absent.
C1_DetailNotFoundIffNoReport ==
    resp.op = "detail" =>
        /\ resp.status = 404 <=> ~ReportParses(dir, resp.id)
        /\ resp.status # 404 =>
              /\ resp.status = 200
              /\ resp.body.sentry_report = FromText(dir[ReportPath(resp.id)].doc)
              /\ (\/ MinidumpPath(resp.id) \notin DOMAIN dir
                  \/ dir[MinidumpPath(resp.id)].kind # "minidump")
                    => resp.body.minidump_summary = None

\* A report is returned although the file under the minidump's name is not a
\* minidump.
C1_Witness ==
    /\ resp.op = "detail"
    /\ resp.status = 200
    /\ MinidumpPath(resp.id) \in DOMAIN dir
    /\ dir[MinidumpPath(resp.id)].kind = "binary"
    /\ resp.body.minidump_summary = None
    /\ Get(resp.body.sentry_report, "message") = Some(JStr(<<"n", QUOTE>>))

SummaryKeys ==
    {"os", "exception", "thread_count", "top_frames", "misc_info", "modules",
     "unloaded_module_count", "memory_regions"}

\* C3: once the minidump is opened the summary is always produced, and each
\* of its entries is present exactly when its own stream decodes, whatever
\* the other streams are.
C3_SectionsIndependent ==
    DetailOpened =>
        /\ resp.body.minidump_summary # None
        /\ LET keys == DOMAIN DetailSummary
           IN  /\ keys \subseteq SummaryKeys
               /\ "os" \in keys <=> Decodes("sys")
               /\ "exception" \in keys <=> Decodes("exc")
               /\ "thread_count" \in keys <=> Decodes("threads")
               /\ "top_frames" \in keys <=> Decodes("threads")
               /\ "misc_info" \in keys <=> Decodes("misc")
               /\ "modules" \in keys <=> Decodes("modules")
               /\ "unloaded_module_count" \in keys <=> Decodes("unloaded")
               /\ "memory_regions" \in keys <=> (Decodes("meminfo") \/ Decodes("memlist"))

\* No exception stream, a corrupt module list and a valid thread list: the
\* summary has the thread count and no exception.
C3_Witness ==
    /\ DetailSummarized
    /\ DetailDump.exc.st = "absent"
    /\ DetailDump.modules.st = "corrupt"
    /\ Decodes("threads")
    /\ "exception" \notin DOMAIN DetailSummary
    /\ "modules" \notin DOMAIN DetailSummary
    /\ DetailSummary["thread_count"] = 2

\* The digits of lowercase hexadecimal, in order of value.
LowercaseHexDigits ==
    <<"0","1","2","3","4","5","6","7","8","9","a","b","c","d","e","f">>

RECURSIVE HexValue(_)
HexValue(digits) ==
    IF digits = <<>> THEN 0
    ELSE 16 * HexValue(SubSeq(digits, 1, Len(digits) - 1))
         + ((CHOOSE k \in 1..16 : LowercaseHexDigits[k] = digits[Len(digits)]) - 1)

\* text is "0x" followed by n in lowercase hexadecimal.
IsHexOf(text, n) ==
    /\ Len(text) >= 3
    /\ text[1] = "0" /\ text[2] = "x"
    /\ \A i \in 3..Len(text) : \E k \in 1..16 : LowercaseHexDigits[k] = text[i]
    /\ HexValue(SubSeq(text, 3, Len(text))) = n

\* With marker the entry of a thread that cannot be resolved: the top frames
\* have one entry per thread, in thread-list order; the entry of a thread
\* without a context, or of any thread when the system info did not decode,
\* is the marker; every other entry is the thread's instruction pointer as
\* 0x and lowercase hexadecimal.
TopFramesPerThread(marker) ==
    (DetailSummarized /\ Decodes("threads")) =>
        LET threads == DetailDump.threads.v
            tops == DetailSummary["top_frames"]
        IN  /\ DetailSummary["thread_count"] = Len(threads)
            /\ Len(tops) = Len(threads)
            /\ \A i \in 1..Len(threads) :
                  IF Decodes("sys") /\ threads[i].context # None
                  THEN IsHexOf(tops[i], threads[i].context[1])
                  ELSE tops[i] = marker

\* C4 as stated: one top-frames entry per thread, and the entry of a thread
\* whose instruction pointer cannot be resolved is the marker "unavailable".
C4_MarkerUnavailable ==
    TopFramesPerThread(<<"u","n","a","v","a","i","l","a","b","l","e">>)

\* C4, amended: when the thread list decodes, top_frames has one entry per
\* thread in thread-list order and as many entries as thread_count; the
\* entry of a thread whose instruction pointer cannot be resolved (no
\* context, or no system info) is the marker "N/A"; every resolved entry is
\* the address as 0x and lowercase hexadecimal.
C4_TopFramesPerThread == TopFramesPerThread(<<"N","/","A">>)

\* A resolved thread followed by a thread without a context.
C4_Witness ==
    /\ DetailSummarized
    /\ Decodes("threads")
    /\ Decodes("sys")
    /\ DetailDump.threads.v = <<[context |-> Some(43981)], [context |-> None]>>
    /\ DetailSummary["top_frames"] = <<<<"0","x","a","b","c","d">>, <<"N","/","A">>>>

\* C5: when the exception stream decodes, the summary's exception has the
\* faulting thread id; its reason is the crash reason for the exception, the
\* OS and the CPU when the system info decoded, and "Unknown" otherwise.
C5_ExceptionReason ==
    (DetailSummarized /\ Decodes("exc")) =>
        /\ "exception" \in DOMAIN DetailSummary
        /\ LET e == DetailSummary["exception"]
               exc == DetailDump.exc.v
           IN  /\ e.thread_id = exc.thread_id
               /\ Decodes("sys") =>
                     e.reason = <<"CrashReason", exc.code,
                                  DetailDump.sys.v.os, DetailDump.sys.v.cpu>>
               /\ ~Decodes("sys") => e.reason = <<"Unknown">>

\* An exception whose reason is Unknown because the system info is corrupt.
C5_Witness ==
    /\ DetailSummarized
    /\ Decodes("exc")
    /\ DetailDump.sys.st = "corrupt"
    /\ DetailSummary["exception"] = [reason |-> <<"Unknown">>, thread_id |-> 7]

\* C6: memory_regions is the length of the memory info list when it decodes,
\* else the length of the memory list when that one decodes, else absent.
C6_MemoryRegions ==
    DetailSummarized =>
        IF Decodes("meminfo")
        THEN DetailSummary["memory_regions"] = Len(DetailDump.meminfo.v)
        ELSE IF Decodes("memlist")
        THEN DetailSummary["memory_regions"] = Len(DetailDump.memlist.v)
        ELSE "memory_regions" \notin DOMAIN DetailSummary

\* Both lists decode, the memory info list is empty and the memory list is
\* not: the count is 0.
C6_Witness ==
    /\ DetailSummarized
    /\ Decodes("meminfo") /\ Decodes("memlist")
    /\ DetailDump.meminfo.v = <<>>
    /\ Len(DetailDump.memlist.v) = 2
    /\ DetailSummary["memory_regions"] = 0

---------------------------------------------------------------------------
(* Properties of GET /crashes *)

\* The name is crash_report_<id>.json for some id.
NamesReport(name) ==
    /\ StripPrefix(name, CRASH_REPORT_PREFIX) # None
    /\ StripSuffix(StripPrefix(name, CRASH_REPORT_PREFIX)[1], JSON_SUFFIX) # None

\* The file of that name is text that parses.
FileParses(d, name) == d[name].kind = "text" /\ TextOk(d[name].doc)

\* The entry of the report file of that name.
EntryOfFile(d, name) == CrashSummary(EntryId(name)[1], FromText(d[name].doc))

\* One entry per report file of the directory that reads and parses.
EntriesOfValidReports(d) ==
    LET valid == {n \in DOMAIN d : NamesReport(n) /\ FileParses(d, n)}
    IN  [e \in {EntryOfFile(d, n) : n \in valid} |->
            Cardinality({n \in valid : EntryOfFile(d, n) = e})]

\* C2: when the directory can be enumerated, GET /crashes succeeds with
\* exactly one entry for each file named crash_report_<id>.json that reads
\* and parses, and no entry for any other file.
C2_ListExactlyValidReports ==
    (resp.op = "list" /\ resp.enumerable) =>
        /\ resp.status = 200
        /\ resp.body = EntriesOfValidReports(dir)

\* The same, in the directories whose file names are all valid UTF-8.
ListExactlyValidReportsUtf8 ==
    (\A n \in DOMAIN dir : \A i \in DOMAIN n : n[i] # BADUNIT)
        => C2_ListExactlyValidReports

---------------------------------------------------------------------------
(* Properties of the panic hook *)

\* The report the hook's event is persisted in, as the server loads it.
PersistedReport == load_sentry_json(dir, hook.event.event_id)

\* With fallback the message of a payload that is no string: the message of
\* the event is the text of a &str payload, else the text of a String
\* payload, else the fallback; the event always has a message.
MessageByPayload(fallback) ==
    pc = "exited" =>
        /\ hook.result = "returned"
        /\ hook.event.message # None
        /\ hook.payload.type = "&str" => hook.event.message = Some(hook.payload.text)
        /\ hook.payload.type = "String" => hook.event.message = Some(hook.payload.text)
        /\ hook.payload.type \notin {"&str", "String"} => hook.event.message = Some(fallback)

\* C7 as stated: a payload that is neither a &str nor a String gives the
\* message "no message available".
C7_FallbackNoMessageAvailable ==
    MessageByPayload(<<"n","o"," ","m","e","s","s","a","g","e"," ",
                       "a","v","a","i","l","a","b","l","e">>)

\* C7, amended: message extraction never fails; a &str payload gives its
\* text, otherwise a String payload gives its text, otherwise the message is
\* the fallback "Panic occurred without a string message."; the event
\* always has a message.
C7_MessageByPayload ==
    MessageByPayload(<<"P","a","n","i","c"," ","o","c","c","u","r","r","e","d"," ",
                       "w","i","t","h","o","u","t"," ","a"," ","s","t","r","i","n","g"," ",
                       "m","e","s","s","a","g","e",".">>)

\* A payload that is no string was recorded with the fallback, and persisted.
C7_Witness ==
    /\ pc = "exited"
    /\ hook.payload.type = "other"
    /\ hook.saved
    /\ Len(hook.event.message[1]) = 40
    /\ Get(PersistedReport.v, "message") = Some(JStr(hook.event.message[1]))

\* C8: a crash with message P whose report was written is found by the
\* catalog: the id read from the file's name is the event's id, the report
\* of that id loads, and its message, also in the entry of GET /crashes for
\* that id, is P.
C8_MessageRoundTrip ==
    (pc = "exited" /\ hook.saved /\ hook.payload.type \in {"&str", "String"}) =>
        LET id == hook.event.event_id
            P == hook.payload.text
            written == {n \in DOMAIN dir :
                           /\ dir[n].kind = "text"
                           /\ FromStr(dir[n].doc) = Ok(EventJson(hook.event))}
            listed == get_crashes(dir, TRUE)
        IN  /\ written # {}
            /\ \A n \in written : EntryId(n) = Some(id)
            /\ PersistedReport.ok
            /\ Get(PersistedReport.v, "message") = Some(JStr(P))
            /\ Get(PersistedReport.v, "event_id") = Some(JStr(id))
            /\ listed.status = 200
            /\ \E e \in DOMAIN listed.body : e.id = id
            /\ \A e \in DOMAIN listed.body :
                  e.id = id => (e.message = Some(P) /\ listed.body[e] = 1)

\* A message of a backslash followed by n came back as it was, and is in
\* the response to GET /crashes.
C8_Witness ==
    /\ pc = "exited"
    /\ hook.saved
    /\ hook.payload = [type |-> "String", text |-> <<BSLASH, "n">>]
    /\ resp.op = "list"
    /\ resp.status = 200
    /\ \E e \in DOMAIN resp.body :
          e.id = hook.event.event_id /\ e.message = Some(<<BSLASH, "n">>)

\* The frames of the persisted report, None when its stacktrace is null.
PersistedFrames ==
    LET st == Get(PersistedReport.v, "stacktrace")[1]
    IN  IF st = JNull THEN None ELSE Some(st.o.frames.a)

HookFailures ==
    {"Failed to serialize Sentry event to JSON",
     "Failed to create crash report file",
     "Failed to write crash report to file"}

====
